---- MODULE Spec2Model ----
(***************************************************************************)
(* State machine of the Home component (frontend/src/pages/Home.tsx) and   *)
(* of the navigation buttons of ImageUploader.tsx that drive it.           *)
(*                                                                         *)
(* React state is the module's variables.  One action is one event of the  *)
(* single-threaded event loop: a handler (or the continuation of an async  *)
(* function after an await) together with the render it causes and the     *)
(* effects that render runs.  State updates made by one event are batched  *)
(* into one render.  Requests in flight and the backend's progress are the *)
(* environment.                                                            *)
(***************************************************************************)
EXTENDS Integers, FiniteSets, Sequences, TLC

VARIABLES
    image,              \* Home.tsx:20  object URL of the chosen file (0 = null, k = k-th file)
    imageId,            \* Home.tsx:21  0 = null, else the image_id the server returned
    currentMaskIndex,   \* Home.tsx:22
    cachedResults,      \* Home.tsx:23  sparse array, Null where there is a hole
    loading,            \* Home.tsx:24
    error,              \* Home.tsx:25
    totalInstances,     \* Home.tsx:26
    processedInstances, \* Home.tsx:27
    uploads,            \* POST /upload requests in flight (Home.tsx:46)
    fetches,            \* GET /results requests in flight awaited by fetchMask (Home.tsx:74)
    polls,              \* running pollResults calls, each awaiting one GET (Home.tsx:102)
    srv,                \* the backend: per image_id, instances in total and instances finished
    faults,             \* number of results requests the backend or network has failed
    last                \* the event handled by the latest step

vars == <<image, imageId, currentMaskIndex, cachedResults, loading, error,
          totalInstances, processedInstances, uploads, fetches, polls, srv,
          faults, last>>

----------------------------------------------------------------------------
(* Bounds *)

MaxUploads == 2
MaxTotal == 3
MaxPolls == 2
MaxFetches == 2
MaxFaults == 1

----------------------------------------------------------------------------
(* Values *)

NoId == 0
Sids == 1..MaxUploads
Indices == 0..(MaxTotal - 1)

\* a hole of the cachedResults array (undefined)
Null == [sid |-> 0, index |-> 0]

\* the body GET /results/{sid}/{index} returns (POST /upload returns Result(sid, 0))
Result(sid, index) == [sid |-> sid, index |-> index]

NoError == "null"
Absent == "absent"
ErrorBodies == {Absent, "invalid image"}

NoFetch == [sid |-> 0, index |-> 0]
NoPoll == [sid |-> 0, index |-> 0, total |-> 0, snap |-> {}]

\* setProcessedInstances(index + 1) without Math.max
Max_SecondOnly(a, b) == b

Max(a, b) == IF a >= b THEN a ELSE b

Event(op, sid, index, out, body) ==
    [op |-> op, sid |-> sid, index |-> index, out |-> out, body |-> body]

\* data.error || fallback
OrElse(body, fallback) == IF body = Absent THEN fallback ELSE body

\* indices at which the array holds a truthy value
Cached(results) == {i \in Indices : results[i] # Null}

EmptyResults == [i \in Indices |-> Null]

\* newResults built from scratch instead of from [...prev]
StoreResult_DropsOthers(prev, index, data) ==
    [i \in Indices |-> IF i = index THEN data ELSE Null]

\* [...prev]; newResults[index] = data
StoreResult(prev, index, data) == [prev EXCEPT ![index] = data]

FreeSlots(slots, none) == {k \in DOMAIN slots : slots[k] = none}
LowestFree(slots, none) == CHOOSE k \in FreeSlots(slots, none) :
                               \A j \in FreeSlots(slots, none) : k <= j

----------------------------------------------------------------------------
(* The backend *)

NoJob == [total |-> 0, ready |-> 0]

\* GET /results/{sid}/{index} succeeds once the backend has finished the instance
Ready(sid, index) == index < srv[sid].ready

\* outcomes of a results request: "ok", "notReady" (non-ok status, transient),
\* "fail" (non-ok status, terminal), "throw" (the request rejects)
ResultOutcomes(sid, index) ==
    (IF Ready(sid, index) THEN {"ok"} ELSE {"notReady"})
    \cup (IF faults < MaxFaults THEN {"fail", "throw"} ELSE {})

IsFault(out) == out \in {"fail", "throw"}

\* the backend finishes the next instance of an image
ServerProgress(sid) ==
    /\ srv[sid].ready < srv[sid].total
    /\ srv' = [srv EXCEPT ![sid].ready = @ + 1]
    /\ last' = Event("server", sid, srv[sid].ready, "ready", Absent)
    /\ UNCHANGED <<image, imageId, currentMaskIndex, cachedResults, loading, error,
                   totalInstances, processedInstances, uploads, fetches, polls, faults>>

----------------------------------------------------------------------------
(* Effects *)

\* the polling effect without the processedInstances >= totalInstances return
PollArmed_NoCountGuard == imageId # NoId

\* the polling effect has an interval armed (its guard did not return early);
\* its dependencies are every value pollResults closes over, so the armed
\* interval's closure always holds the state of the latest render
PollArmed == imageId # NoId /\ processedInstances < totalInstances

\* fetchMask does not return early
FetchMaskIssues(id, index, results) == id # NoId /\ results[index] = Null

\* the effect on [imageId, currentMaskIndex], run after a render that changed
\* one of them: fetchMask(currentMaskIndex) up to its await.  ld and er are the
\* values the handler itself gave loading and error.
FetchEffect(id, index, results, ld, er) ==
    IF id # NoId /\ index >= 0 /\ FetchMaskIssues(id, index, results)
    THEN /\ FreeSlots(fetches, NoFetch) # {}
         /\ fetches' = [fetches EXCEPT ![LowestFree(fetches, NoFetch)] =
                            [sid |-> id, index |-> index]]
         /\ loading' = TRUE
         /\ error' = NoError
    ELSE /\ fetches' = fetches
         /\ loading' = ld
         /\ error' = er

----------------------------------------------------------------------------
(* Upload *)

\* handleImageUpload without setCurrentMaskIndex(0)
HandleImageUpload_KeepsCursor ==
    /\ image < MaxUploads
    /\ image' = image + 1
    /\ loading' = TRUE
    /\ error' = NoError
    /\ cachedResults' = EmptyResults
    /\ imageId' = NoId
    /\ currentMaskIndex' = currentMaskIndex
    /\ totalInstances' = 0
    /\ processedInstances' = 0
    /\ uploads' = uploads \cup {image + 1}
    /\ last' = Event("upload", image + 1, 0, "start", Absent)
    /\ UNCHANGED <<fetches, polls, srv, faults>>

HandleImageUpload ==
    /\ image < MaxUploads
    /\ image' = image + 1
    /\ loading' = TRUE
    /\ error' = NoError
    /\ cachedResults' = EmptyResults
    /\ imageId' = NoId
    /\ currentMaskIndex' = 0
    /\ totalInstances' = 0
    /\ processedInstances' = 0
    /\ uploads' = uploads \cup {image + 1}
    /\ last' = Event("upload", image + 1, 0, "start", Absent)
    /\ UNCHANGED <<fetches, polls, srv, faults>>

UploadOk(sid, n) ==
    /\ sid \in uploads
    /\ uploads' = uploads \ {sid}
    /\ srv' = [srv EXCEPT ![sid] = [total |-> n, ready |-> IF n > 0 THEN 1 ELSE 0]]
    /\ imageId' = sid
    /\ cachedResults' = StoreResult(EmptyResults, 0, Result(sid, 0))
    /\ totalInstances' = n
    /\ processedInstances' = 1
    /\ FetchEffect(sid, currentMaskIndex, cachedResults', FALSE, error)
    /\ last' = Event("upload", sid, 0, "ok", Absent)
    /\ UNCHANGED <<image, currentMaskIndex, polls, faults>>

UploadFail(sid, body) ==
    /\ sid \in uploads
    /\ uploads' = uploads \ {sid}
    /\ error' = OrElse(body, "Failed to upload image")
    /\ loading' = FALSE
    /\ last' = Event("upload", sid, 0, "fail", body)
    /\ UNCHANGED <<image, imageId, currentMaskIndex, cachedResults, totalInstances,
                   processedInstances, fetches, polls, srv, faults>>

UploadThrow(sid) ==
    /\ sid \in uploads
    /\ uploads' = uploads \ {sid}
    /\ error' = "Network error during upload"
    /\ loading' = FALSE
    /\ last' = Event("upload", sid, 0, "throw", Absent)
    /\ UNCHANGED <<image, imageId, currentMaskIndex, cachedResults, totalInstances,
                   processedInstances, fetches, polls, srv, faults>>

----------------------------------------------------------------------------
(* On-demand fetch: the continuation of fetchMask after its await *)

\* fetchMask advancing processedInstances on a failed request as well
FetchMaskResponse_FailureAdvances(k, out, body) ==
    /\ fetches[k] # NoFetch
    /\ out \in ResultOutcomes(fetches[k].sid, fetches[k].index)
    /\ fetches' = [fetches EXCEPT ![k] = NoFetch]
    /\ faults' = IF IsFault(out) THEN faults + 1 ELSE faults
    /\ loading' = FALSE
    /\ processedInstances' = IF processedInstances >= fetches[k].index + 1
                             THEN processedInstances ELSE fetches[k].index + 1
    /\ IF out = "ok"
       THEN /\ cachedResults' = [cachedResults EXCEPT ![fetches[k].index] =
                                     Result(fetches[k].sid, fetches[k].index)]
            /\ error' = error
       ELSE /\ error' = IF out = "throw" THEN "Network error while fetching mask"
                        ELSE OrElse(body, "Failed to fetch mask")
            /\ UNCHANGED cachedResults
    /\ last' = Event("fetch", fetches[k].sid, fetches[k].index, out,
                     IF out \in {"ok", "throw"} THEN Absent ELSE body)
    /\ UNCHANGED <<image, imageId, currentMaskIndex, totalInstances, uploads, polls, srv>>

FetchMaskResponse(k, out, body) ==
    /\ fetches[k] # NoFetch
    /\ out \in ResultOutcomes(fetches[k].sid, fetches[k].index)
    /\ fetches' = [fetches EXCEPT ![k] = NoFetch]
    /\ faults' = IF IsFault(out) THEN faults + 1 ELSE faults
    /\ loading' = FALSE
    /\ IF out = "ok"
       THEN /\ cachedResults' = StoreResult(cachedResults, fetches[k].index,
                                            Result(fetches[k].sid, fetches[k].index))
            /\ processedInstances' = Max(processedInstances, fetches[k].index + 1)
            /\ error' = error
       ELSE /\ error' = IF out = "throw" THEN "Network error while fetching mask"
                        ELSE OrElse(body, "Failed to fetch mask")
            /\ UNCHANGED <<cachedResults, processedInstances>>
    /\ last' = Event("fetch", fetches[k].sid, fetches[k].index, out,
                     IF out \in {"ok", "throw"} THEN Absent ELSE body)
    /\ UNCHANGED <<image, imageId, currentMaskIndex, totalInstances, uploads, polls, srv>>

----------------------------------------------------------------------------
(* Polling *)

\* the for loop of pollResults from index `from` up to its next await:
\* the first index below total the closure's cachedResults does not hold, or -1
NextPollIndex(from, total, snap) ==
    LET todo == {i \in from..(total - 1) : i \notin snap}
    IN  IF todo = {} THEN -1 ELSE CHOOSE i \in todo : \A j \in todo : i <= j

\* the interval fires: pollResults starts and runs up to its first await (or to
\* the end of its loop when no index is left to request)
PollTick ==
    /\ PollArmed
    /\ FreeSlots(polls, NoPoll) # {}
    /\ LET first == NextPollIndex(processedInstances, totalInstances,
                                  Cached(cachedResults))
       IN  /\ polls' = IF first >= 0
                       THEN [polls EXCEPT ![LowestFree(polls, NoPoll)] =
                                [sid |-> imageId, index |-> first,
                                 total |-> totalInstances,
                                 snap |-> Cached(cachedResults)]]
                       ELSE polls
           /\ last' = Event("tick", imageId, first, "start", Absent)
    /\ UNCHANGED <<image, imageId, currentMaskIndex, cachedResults, loading, error,
                   totalInstances, processedInstances, uploads, fetches, srv, faults>>

\* pollResults surfacing a failed request the way fetchMask does
PollResponse_FailureSurfaces(k, out) ==
    /\ polls[k] # NoPoll
    /\ out \in ResultOutcomes(polls[k].sid, polls[k].index)
    /\ faults' = IF IsFault(out) THEN faults + 1 ELSE faults
    /\ IF out = "ok"
       THEN /\ cachedResults' = [cachedResults EXCEPT ![polls[k].index] =
                                     Result(polls[k].sid, polls[k].index)]
            /\ processedInstances' = IF processedInstances >= polls[k].index + 1
                                     THEN processedInstances ELSE polls[k].index + 1
            /\ error' = error
       ELSE /\ error' = "Network error while fetching mask"
            /\ UNCHANGED <<cachedResults, processedInstances>>
    /\ LET next == NextPollIndex(polls[k].index + 1, polls[k].total, polls[k].snap)
       IN  polls' = [polls EXCEPT ![k] =
                        IF next >= 0 THEN [@ EXCEPT !.index = next] ELSE NoPoll]
    /\ last' = Event("poll", polls[k].sid, polls[k].index, out, Absent)
    /\ UNCHANGED <<image, imageId, currentMaskIndex, loading, totalInstances,
                   uploads, fetches, srv>>

\* the continuation of pollResults after its await, up to the next await or the
\* end of the loop
PollResponse(k, out) ==
    /\ polls[k] # NoPoll
    /\ out \in ResultOutcomes(polls[k].sid, polls[k].index)
    /\ faults' = IF IsFault(out) THEN faults + 1 ELSE faults
    /\ IF out = "ok"
       THEN /\ cachedResults' = StoreResult(cachedResults, polls[k].index,
                                            Result(polls[k].sid, polls[k].index))
            /\ processedInstances' = Max(processedInstances, polls[k].index + 1)
       ELSE UNCHANGED <<cachedResults, processedInstances>>
    /\ LET next == NextPollIndex(polls[k].index + 1, polls[k].total, polls[k].snap)
       IN  polls' = [polls EXCEPT ![k] =
                        IF next >= 0 THEN [@ EXCEPT !.index = next] ELSE NoPoll]
    /\ last' = Event("poll", polls[k].sid, polls[k].index, out, Absent)
    /\ UNCHANGED <<image, imageId, currentMaskIndex, loading, error, totalInstances,
                   uploads, fetches, srv>>

----------------------------------------------------------------------------
(* Navigation *)

\* the navigation block is rendered: results && results.metrics
NavigationShown == cachedResults[currentMaskIndex] # Null

PrevEnabled == NavigationShown /\ ~(currentMaskIndex = 0)

NextEnabled == NavigationShown /\ ~(currentMaskIndex >= processedInstances - 1)

HandlePrevMask ==
    /\ PrevEnabled
    /\ currentMaskIndex' = Max(0, currentMaskIndex - 1)
    /\ FetchEffect(imageId, currentMaskIndex', cachedResults, loading, error)
    /\ last' = Event("prev", imageId, currentMaskIndex', "nav", Absent)
    /\ UNCHANGED <<image, imageId, cachedResults, totalInstances, processedInstances,
                   uploads, polls, srv, faults>>

HandleNextMask ==
    /\ NextEnabled
    /\ currentMaskIndex' = currentMaskIndex + 1
    /\ FetchEffect(imageId, currentMaskIndex', cachedResults, loading, error)
    /\ last' = Event("next", imageId, currentMaskIndex', "nav", Absent)
    /\ UNCHANGED <<image, imageId, cachedResults, totalInstances, processedInstances,
                   uploads, polls, srv, faults>>

----------------------------------------------------------------------------
(* Specification *)

Init ==
    /\ image = 0
    /\ imageId = NoId
    /\ currentMaskIndex = 0
    /\ cachedResults = EmptyResults
    /\ loading = FALSE
    /\ error = NoError
    /\ totalInstances = 0
    /\ processedInstances = 0
    /\ uploads = {}
    /\ fetches = [k \in 1..MaxFetches |-> NoFetch]
    /\ polls = [k \in 1..MaxPolls |-> NoPoll]
    /\ srv = [s \in Sids |-> NoJob]
    /\ faults = 0
    /\ last = Event("init", 0, 0, "none", Absent)

Next ==
    \/ HandleImageUpload
    \/ \E sid \in Sids, n \in 0..MaxTotal : UploadOk(sid, n)
    \/ \E sid \in Sids, body \in ErrorBodies : UploadFail(sid, body)
    \/ \E sid \in Sids : UploadThrow(sid)
    \/ \E k \in 1..MaxFetches, out \in {"ok", "notReady", "fail", "throw"},
          body \in ErrorBodies : FetchMaskResponse(k, out, body)
    \/ PollTick
    \/ \E k \in 1..MaxPolls, out \in {"ok", "notReady", "fail", "throw"} :
          PollResponse(k, out)
    \/ HandlePrevMask
    \/ HandleNextMask
    \/ \E sid \in Sids : ServerProgress(sid)

Spec == Init /\ [][Next]_vars

\* what the event loop guarantees: an armed interval fires, a pending request
\* is answered, the backend keeps working
Fairness ==
    /\ WF_vars(PollTick)
    /\ \A k \in 1..MaxPolls :
          WF_vars(\E out \in {"ok", "notReady", "fail", "throw"} : PollResponse(k, out))
    /\ \A k \in 1..MaxFetches :
          WF_vars(\E out \in {"ok", "notReady", "fail", "throw"}, body \in ErrorBodies :
                      FetchMaskResponse(k, out, body))
    /\ \A sid \in Sids : WF_vars(ServerProgress(sid))

\* the runs with one file chosen and no results request failed: every results
\* request is answered "not ready" or with the result
OneSessionNext ==
    \/ image = 0 /\ HandleImageUpload
    \/ \E sid \in Sids, n \in 0..MaxTotal : UploadOk(sid, n)
    \/ \E sid \in Sids, body \in ErrorBodies : UploadFail(sid, body)
    \/ \E sid \in Sids : UploadThrow(sid)
    \/ \E k \in 1..MaxFetches, out \in {"ok", "notReady"}, body \in ErrorBodies :
          FetchMaskResponse(k, out, body)
    \/ PollTick
    \/ \E k \in 1..MaxPolls, out \in {"ok", "notReady"} : PollResponse(k, out)
    \/ HandlePrevMask
    \/ HandleNextMask
    \/ \E sid \in Sids : ServerProgress(sid)

OneSessionSpec == Init /\ [][OneSessionNext]_vars /\ Fairness

TypeOK ==
    /\ image \in 0..MaxUploads
    /\ imageId \in {NoId} \cup Sids
    /\ currentMaskIndex \in Indices
    /\ cachedResults \in [Indices -> {Null} \cup {Result(s, i) : s \in Sids, i \in Indices}]
    /\ loading \in BOOLEAN
    /\ totalInstances \in 0..MaxTotal
    /\ processedInstances \in 0..MaxTotal
    /\ uploads \subseteq Sids
    /\ faults \in 0..MaxFaults

----------------------------------------------------------------------------
(* Properties *)

FetchRequests == {k \in 1..MaxFetches : fetches[k] # NoFetch}
PollRequests == {k \in 1..MaxPolls : polls[k] # NoPoll}

\* number of results requests in flight for instance `index` of image `sid`
InFlight(sid, index) ==
    Cardinality({k \in FetchRequests : fetches[k].sid = sid /\ fetches[k].index = index})
    + Cardinality({k \in PollRequests : polls[k].sid = sid /\ polls[k].index = index})

\* nothing is awaited: no upload, no fetchMask, no pollResults call is pending
Quiescent == uploads = {} /\ FetchRequests = {} /\ PollRequests = {}

\* C1: every entry of cachedResults was returned for the image_id that is the
\* current imageId; a response to a request issued under an earlier imageId
\* never lands in it.
C1_StoreBelongsToActiveSession ==
    \A i \in Indices : cachedResults[i] # Null => cachedResults[i].sid = imageId

\* C2: for every image_id and index at most one results request is in flight,
\* counting fetchMask calls and pollResults calls together.
C2_OneRequestPerIndex ==
    \A s \in Sids, i \in Indices : InFlight(s, i) <= 1

\* C3: while a session is active, processedInstances <= totalInstances, for
\* every total_instances the server reports (0 included).
C3_ProcessedWithinTotal ==
    imageId # NoId => processedInstances <= totalInstances

\* C4: a step never issues a results request for an index cachedResults holds
\* at the moment the request is issued (fetchMask and pollResults alike).
C4_NoRequestForCachedIndex ==
    [][ /\ \A k \in 1..MaxFetches :
              (fetches[k] = NoFetch /\ fetches'[k] # NoFetch)
                  => cachedResults'[fetches'[k].index] = Null
        /\ \A k \in 1..MaxPolls :
              (polls'[k] # NoPoll /\ polls'[k] # polls[k])
                  => cachedResults'[polls'[k].index] = Null ]_vars

\* C5: a step that is neither the start of an upload nor the handling of an
\* upload response leaves every stored entry of cachedResults as it is.
C5_StoredResultImmutable ==
    [][ (image' = image /\ uploads' = uploads)
            => \A i \in Indices :
                   cachedResults[i] # Null => cachedResults'[i] = cachedResults[i] ]_vars

\* C6: once every upload response has been handled, the session (imageId, the
\* seeded result, totalInstances) is that of the most recently submitted image.
C6_LatestUploadWins ==
    (uploads = {} /\ imageId # NoId)
        => /\ imageId = image
           /\ cachedResults[0] = Result(image, 0)
           /\ totalInstances = srv[image].total

\* C7: right after a successful upload response with total_instances = n is
\* handled: imageId is the returned image_id, cachedResults is exactly
\* {0 -> result}, processedInstances = 1, totalInstances = n, the cursor is 0,
\* loading is false, and the poll interval is armed iff n > 1.
C7_UploadSuccessState ==
    (last.op = "upload" /\ last.out = "ok")
        => /\ imageId = last.sid
           /\ cachedResults = StoreResult(EmptyResults, 0, Result(last.sid, 0))
           /\ processedInstances = 1
           /\ totalInstances = srv[last.sid].total
           /\ currentMaskIndex = 0
           /\ loading = FALSE
           /\ (PollArmed <=> srv[last.sid].total > 1)

\* C8: right after a failed upload response is handled there is no session,
\* loading is false and error is the body's message ("Failed to upload image"
\* without one, "Network error during upload" when the request throws).
C8_UploadFailureState ==
    (last.op = "upload" /\ last.out \in {"fail", "throw"})
        => /\ imageId = NoId
           /\ loading = FALSE
           /\ error = (IF last.out = "throw" THEN "Network error during upload"
                       ELSE IF last.body = Absent THEN "Failed to upload image"
                       ELSE last.body)

\* C9: from the start of an upload until a successful upload response, that is
\* while imageId is null, cachedResults is empty and totalInstances =
\* processedInstances = 0, whatever earlier requests are still in flight.
C9_NothingRetainedWithoutSession ==
    imageId = NoId
        => /\ cachedResults = EmptyResults
           /\ totalInstances = 0
           /\ processedInstances = 0

\* C10: polling does not go idle for good while an announced index is uncached:
\* with a session active, no request failed, the backend done with every
\* instance and nothing pending, either the interval is armed or every index
\* below totalInstances is cached.
C10_PollingReachesAll ==
    (imageId # NoId /\ faults = 0 /\ Quiescent
        /\ srv[imageId].ready = srv[imageId].total /\ ~PollArmed)
        => \A i \in 0..(totalInstances - 1) : cachedResults[i] # Null

\* C11: with a session active, every index below processedInstances is present
\* in cachedResults (no gap below the processed count).
C11_NoGapBelowProcessed ==
    imageId # NoId
        => \A i \in 0..(processedInstances - 1) : cachedResults[i] # Null

\* C12: a Prev step sets the cursor to max(cursor - 1, 0) and issues no
\* network request.
C12_PrevNeverFetches ==
    [][ last'.op = "prev"
            => /\ currentMaskIndex' = (IF currentMaskIndex - 1 >= 0
                                       THEN currentMaskIndex - 1 ELSE 0)
               /\ fetches' = fetches
               /\ polls' = polls ]_vars

\* C13: the cursor lies in [0, totalInstances - 1] when totalInstances > 0 and
\* is 0 when totalInstances = 0.
C13_CursorWithinTotal ==
    IF totalInstances > 0
    THEN currentMaskIndex >= 0 /\ currentMaskIndex <= totalInstances - 1
    ELSE currentMaskIndex = 0

\* C14: a Next step sets the cursor to min(cursor + 1, totalInstances - 1) when
\* totalInstances > 0 and leaves it unchanged when totalInstances = 0; at
\* cursor = totalInstances - 1 the cursor stays.
C14_NextBoundedByTotal ==
    [][ last'.op = "next"
            => currentMaskIndex' =
                   (IF totalInstances > 0
                    THEN (IF currentMaskIndex + 1 <= totalInstances - 1
                          THEN currentMaskIndex + 1 ELSE totalInstances - 1)
                    ELSE currentMaskIndex) ]_vars

\* C16: a poll tick starts only while a session exists and processedInstances <
\* totalInstances, and it belongs to the current session: once processedInstances
\* >= totalInstances, or once a new upload has begun, no tick starts.
C16_TickOnlyWhileArmed ==
    last.op = "tick"
        => /\ imageId # NoId
           /\ processedInstances < totalInstances
           /\ last.sid = imageId

\* C16 scenario: total_instances = 3, indices 1 and 2 fetched by polling,
\* processedInstances = 3, no pollResults call left.
C16_Witness ==
    /\ imageId # NoId
    /\ totalInstances = 3
    /\ processedInstances = 3
    /\ \A i \in 0..2 : cachedResults[i] # Null /\ cachedResults[i].sid = imageId
    /\ last.op = "poll"
    /\ PollRequests = {}

\* C17: a failed fetchMask request (non-ok status or thrown) sets the error
\* message and loading = false and leaves processedInstances, totalInstances,
\* cachedResults and the cursor as they were.
C17_FetchFailureKeepsState ==
    [][ (last'.op = "fetch" /\ last'.out # "ok")
            => /\ error' = (IF last'.out = "throw"
                            THEN "Network error while fetching mask"
                            ELSE IF last'.body = Absent THEN "Failed to fetch mask"
                            ELSE last'.body)
               /\ error' # NoError
               /\ loading' = FALSE
               /\ processedInstances' = processedInstances
               /\ totalInstances' = totalInstances
               /\ cachedResults' = cachedResults
               /\ currentMaskIndex' = currentMaskIndex ]_vars

C17_Witness ==
    /\ last.op = "fetch"
    /\ last.out \in {"fail", "throw"}
    /\ last.sid = imageId
    /\ cachedResults[last.index] = Null
    /\ error # NoError
    /\ loading = FALSE

\* C18: a failed request inside pollResults (non-ok status or thrown) leaves
\* error, loading, cachedResults, processedInstances, totalInstances and the
\* cursor unchanged, and an armed poll interval stays armed.
C18_PollFailureSilent ==
    [][ (last'.op = "poll" /\ last'.out # "ok")
            => /\ error' = error
               /\ loading' = loading
               /\ cachedResults' = cachedResults
               /\ processedInstances' = processedInstances
               /\ totalInstances' = totalInstances
               /\ currentMaskIndex' = currentMaskIndex
               /\ ((imageId # NoId /\ processedInstances < totalInstances)
                      => (imageId' # NoId /\ processedInstances' < totalInstances')) ]_vars

C18_Witness ==
    /\ last.op = "poll"
    /\ last.out \in {"fail", "throw"}
    /\ last.sid = imageId
    /\ processedInstances < totalInstances
    /\ cachedResults[last.index] = Null
    /\ error = NoError

\* C19: within one session, that is in every step that neither starts an upload
\* nor changes imageId, processedInstances never decreases.
C19_ProcessedMonotone ==
    [][ (image' = image /\ imageId' = imageId)
            => processedInstances' >= processedInstances ]_vars

\* a successful response for an index below the processed count has been handled
C19_Witness ==
    /\ last.op \in {"fetch", "poll"}
    /\ last.out = "ok"
    /\ last.sid = imageId
    /\ last.index + 1 < processedInstances

\* C20: a successful results response for index i of the active session stores
\* the returned result at i, sets processedInstances to max(processedInstances,
\* i + 1) and leaves totalInstances, the cursor and every other index unchanged,
\* for fetchMask and pollResults alike.
C20_SuccessStoresAtIndex ==
    [][ (last'.op \in {"fetch", "poll"} /\ last'.out = "ok" /\ last'.sid = imageId)
            => /\ cachedResults'[last'.index] = [sid |-> last'.sid, index |-> last'.index]
               /\ \A j \in Indices \ {last'.index} : cachedResults'[j] = cachedResults[j]
               /\ processedInstances' = (IF processedInstances >= last'.index + 1
                                         THEN processedInstances ELSE last'.index + 1)
               /\ totalInstances' = totalInstances
               /\ currentMaskIndex' = currentMaskIndex ]_vars

C20_Witness ==
    /\ last.op = "fetch"
    /\ last.out = "ok"
    /\ last.sid = imageId
    /\ cachedResults[last.index] = [sid |-> imageId, index |-> last.index]
    /\ \E j \in Indices \ {last.index} : cachedResults[j] # Null

\* a "not ready" answer for index i of the active session s has just been handled
NotReadyAnswered(s, i) ==
    /\ last.op \in {"fetch", "poll"}
    /\ last.out = "notReady"
    /\ last.sid = s
    /\ last.index = i
    /\ imageId = s

\* index i of session s is being requested, or no longer needs to be
RequestedAgain(s, i) ==
    InFlight(s, i) > 0 \/ imageId # s \/ cachedResults[i] # Null

\* C15: a "not ready" answer for index i (fetchMask or pollResults) stores
\* nothing and does not advance processedInstances, and i is requested again
\* later (unless the session is replaced or i gets cached meanwhile).
C15_NotReadyIsTransient ==
    /\ [][ (last'.op \in {"fetch", "poll"} /\ last'.out = "notReady")
               => /\ cachedResults' = cachedResults
                  /\ processedInstances' = processedInstances ]_vars
    /\ \A s \in Sids, i \in Indices : NotReadyAnswered(s, i) ~> RequestedAgain(s, i)

\* C21: the cursor is changed only by Next and Prev: the start of an upload, the
\* handling of an upload response, the completion of a fetch and a poll tick
\* (with the responses it awaits) leave it unchanged.
C21_CursorOnlyByNavigation ==
    [][ last'.op \notin {"prev", "next"}
            => currentMaskIndex' = currentMaskIndex ]_vars

\* C21 as the code has it: the start of an upload resets the cursor to 0, Next
\* and Prev move it, and every other step leaves it unchanged.
C21_CursorByNavigationOrReset ==
    [][ /\ (last'.op = "upload" /\ last'.out = "start") => currentMaskIndex' = 0
        /\ (last'.op \notin {"prev", "next"}
                /\ ~(last'.op = "upload" /\ last'.out = "start"))
               => currentMaskIndex' = currentMaskIndex ]_vars

\* an upload response has been handled with the cursor away from 0
C21_Witness ==
    /\ last.op = "upload"
    /\ last.out \in {"ok", "fail", "throw"}
    /\ currentMaskIndex > 0

\* C22: while an upload or a fetchMask request is in flight, loading is true
\* (loading = false implies no foreground request is pending), also when
\* several foreground requests overlap and complete at different times.
C22_LoadingWhilePending ==
    (uploads # {} \/ FetchRequests # {}) => loading = TRUE

\* C23: once a new upload has begun, no results request is issued any more for
\* the image_id of a superseded session: every request a step issues (by
\* fetchMask, by a poll tick, or by a pollResults call going on to its next
\* index) carries the id of the latest upload.
C23_NoRequestForSupersededSession ==
    [][ /\ \A k \in 1..MaxFetches :
              (fetches[k] = NoFetch /\ fetches'[k] # NoFetch)
                  => fetches'[k].sid = image'
        /\ \A k \in 1..MaxPolls :
              (polls'[k] # NoPoll /\ polls'[k] # polls[k])
                  => polls'[k].sid = image' ]_vars

====
